---- MODULE Spec2Model ----
(***************************************************************************)
(* gomatrix: the /sync response decomposer (DefaultSyncer.ProcessResponse, *)
(* sync.go) and the queue-based event listener (defaultListener: On, call, *)
(* scanEvents, stop).  The producer sends pointers to events on the events *)
(* channel; the listener goroutine receives them and calls the registered  *)
(* callbacks under listenersRWMut.                                         *)
(***************************************************************************)
EXTENDS Integers, Sequences, FiniteSets, TLC

\* ------------------------------------------------------------------ bounds
MaxTimelineEvents == 2   \* timeline events of all joined rooms of a response
MaxChanCap == 1          \* capacity of the events channel is 0..MaxChanCap
MaxOn == 2               \* calls of On in one run
MaxStop == 1             \* calls of stop() in one run

\* --------------------------------------------------------- program values
\* sync.RWMutex: rwmutexMaxReaders = 1 << 30
rwmutexMaxReaders == 1073741824

MemberEventType == "m.room.member"
MessageEventType == "m.room.message"

UserID == "@me"
OtherUser == "@other"
NoKey == "nil"           \* Event.StateKey == nil
Rooms == {"r1", "r2"}
NoRoom == ""

NilFn == 0               \* the zero EventListenerCallback
FaultyCallbacks == {1}   \* the registered callbacks that panic when invoked
EventTypes == {MessageEventType, MemberEventType}

NilPtr == 0              \* a nil *Event

\* Content["membership"]: a string, or something m.(string) rejects.
Str(s) == [isString |-> TRUE, val |-> s]
NotStr == [isString |-> FALSE, val |-> "join"]

Kinds == {"msg", "joinMe", "leaveMe", "badMe", "joinNoKey", "joinOther"}

EvId(cat, room, part, idx) == [cat |-> cat, room |-> room, part |-> part, idx |-> idx]

\* An event as decoded from the response: RoomID not yet stamped.
MkEv(kind, id) ==
  [id |-> id,
   type |-> IF kind = "msg" THEN MessageEventType
            ELSE IF kind \in {"joinMe", "leaveMe", "badMe", "joinNoKey", "joinOther"}
                 THEN MemberEventType
            ELSE kind,
   stateKey |-> IF kind \in {"joinMe", "leaveMe", "badMe"} THEN UserID
                ELSE IF kind = "joinOther" THEN OtherUser
                ELSE NoKey,
   membership |-> IF kind \in {"joinMe", "joinNoKey", "joinOther"} THEN Str("join")
                  ELSE IF kind = "leaveMe" THEN Str("leave")
                  ELSE NotStr,
   roomID |-> NoRoom]

SeqsUpTo(S, n) == UNION {[1..k -> S] : k \in 0..n}

RECURSIVE SumLen(_, _)
SumLen(f, D) ==
  IF D = {} THEN 0
  ELSE LET r == CHOOSE x \in D : TRUE IN Len(f[r]) + SumLen(f, D \ {r})

\* The timelines of the joined rooms D: kinds per room, at most n events in all.
TimelineChoices(D, n) ==
  {f \in [D -> SeqsUpTo(Kinds, n)] : SumLen(f, D) <= n}

\* A slice of events of the given kinds, identified by where they stand.
MkEvents(cat, r, part, kinds) ==
  [i \in 1..Len(kinds) |-> MkEv(kinds[i], EvId(cat, r, part, i))]

\* A RespSync: AccountData.Events, Presence.Events, Rooms.Join/Invite/Leave.
\* acc and pres are the kinds of the account and presence events; jd, idom and
\* ldom are the rooms of the three maps; st, tls and eph give each joined room's
\* state, timeline and ephemeral events.
MkResp(acc, pres, jd, st, tls, eph, idom, ldom) ==
  [account |-> MkEvents("account", NoRoom, "", acc),
   presence |-> MkEvents("presence", NoRoom, "", pres),
   join |-> [r \in jd |->
              [state |-> MkEvents("join", r, "state", st),
               timeline |-> MkEvents("join", r, "timeline", tls[r]),
               ephemeral |-> MkEvents("join", r, "ephemeral", eph)]],
   invite |-> [r \in idom |-> [state |-> MkEvents("invite", r, "state", <<"joinMe">>)]],
   leave |-> [r \in ldom |-> [timeline |-> MkEvents("leave", r, "timeline", <<"msg">>)]]]

\* The responses ProcessResponse is checked on: two account events, a presence
\* event, any set of joined rooms with a state event, any timelines of at most n
\* events in all and an ephemeral event; Rooms.Invite nil or with every room;
\* Rooms.Leave with every room.
Responses(n) ==
  UNION {{MkResp(<<"m.push_rules", "m.direct">>, <<"m.presence">>, jd,
                 <<"m.room.name">>, tls, <<"m.typing">>, idom, Rooms) :
            tls \in TimelineChoices(jd, n), idom \in {{}, Rooms}} :
         jd \in SUBSET Rooms}

\* The responses the listener is checked on: one joined room with a timeline
\* of at most n message and membership events.
ListenerKinds == {"msg", "joinOther"}
ListenerResponses(n) ==
  {MkResp(<<>>, <<>>, {"r1"}, <<>>, [r \in {"r1"} |-> tl], <<>>, {}, {}) :
     tl \in SeqsUpTo(ListenerKinds, n)}

RECURSIVE SumSeq(_, _, _)
SumSeq(m, part, D) ==
  IF D = {} THEN 0
  ELSE LET r == CHOOSE x \in D : TRUE IN Len(m[r][part]) + SumSeq(m, part, D \ {r})

\* The number of events of a response, over all categories.
NumEvents(r) ==
  Len(r.account) + Len(r.presence)
  + SumSeq(r.join, "state", DOMAIN r.join) + SumSeq(r.join, "timeline", DOMAIN r.join)
  + SumSeq(r.join, "ephemeral", DOMAIN r.join)
  + SumSeq(r.invite, "state", DOMAIN r.invite) + SumSeq(r.leave, "timeline", DOMAIN r.leave)

\* ------------------------------------------------------------------ state
VARIABLES
  \* DefaultSyncer.ProcessResponse (the producer)
  res,            \* the *RespSync being processed (shouldProcessResponse edits it)
  since,          \* the since= value of the call
  ppc,            \* where ProcessResponse is: enter, should, next, stamp, send, returned
  pos,            \* the range loops of ProcessResponse / shouldProcessResponse
  perr,           \* the error ProcessResponse returned
  \* the events channel and the Event variables its pointers refer to
  heap,           \* the Event variables whose address was taken: cell -> Event
  shareLoopVar,   \* TRUE: one variable per range statement (Go < 1.22); FALSE: one per iteration
  evBuf,          \* the channel's buffer: pointers (cells)
  evCap,          \* its capacity
  evClosed,       \* whether it was closed
  sent,           \* history: the events sent, as they were when sent
  \* defaultListener
  listeners,      \* map[EventType][]EventListenerCallback
  readerCount,    \* listenersRWMut.readerCount
  readerWait,     \* listenersRWMut.readerWait
  wLocked,        \* listenersRWMut.w is held
  readerSem,      \* listenersRWMut.readerSem
  onst,           \* the calls of On in flight: pc, eType, callback, callsList
  nOn,            \* calls of On so far
  acquired,       \* history: the calls of On in the order they got past rw.w.Lock()
  spc,            \* where scanEvents / call is
  cur,            \* the *Event scanEvents received
  callsList,      \* call's callsList
  ci,             \* call's position in callsList
  lerr,           \* l.err
  sret,           \* what scanEvents returned
  invoked,        \* history: the callbacks call has invoked for cur, with the event each saw
  ndispatched,    \* history: how many calls of call(e) have ended
  stopWaiting,    \* goroutines blocked in stop() on stopCh
  stopReturned,   \* calls of stop() that returned
  ctxDone,        \* ctx.Done() is closed
  pushedAtSignal, \* history: events sent when stop() was first called or ctx cancelled
  fatal,          \* the runtime's fatal error that ended the process, and where
  res0,           \* history: the response as ProcessResponse received it
  \* the sync loop's failure policy
  failed          \* history: each failed /sync with what OnFailedSync answered

prodVars == <<res, since, ppc, pos, perr>>
chanVars == <<heap, shareLoopVar, evBuf, evCap, evClosed, sent>>
lockVars == <<readerCount, readerWait, wLocked, readerSem>>
regVars == <<listeners, onst, nOn, acquired>>
scanVars == <<spc, cur, callsList, ci, lerr, sret, invoked, ndispatched>>
stopVars == <<stopWaiting, stopReturned, ctxDone, pushedAtSignal>>
vars == <<prodVars, chanVars, lockVars, regVars, scanVars, stopVars, fatal, res0, failed>>

NoFatal == [msg |-> "", in |-> ""]
Running == fatal = NoFatal

NoList == [ok |-> FALSE, fns |-> <<>>]

\* ------------------------------------------------ shouldProcessResponse
\* ScanTimeline with the scan ending at the most recent own membership event
\* that is a string, whether "join" or not.
RECURSIVE ScanTimeline_MostRecentOnly(_, _, _, _)
ScanTimeline_MostRecentOnly(resp, roomID, tl, i) ==
  IF i < 1 THEN resp
  ELSE LET e == tl[i] IN
    IF e.type = MemberEventType /\ e.stateKey # NoKey /\ e.stateKey = UserID
    THEN IF ~e.membership.isString
         THEN ScanTimeline_MostRecentOnly(resp, roomID, tl, i - 1)
         ELSE IF e.membership.val = "join"
              THEN [resp EXCEPT
                      !.join = [r \in DOMAIN resp.join \ {roomID} |-> resp.join[r]],
                      !.invite = [r \in DOMAIN resp.invite \ {roomID} |-> resp.invite[r]]]
              ELSE resp
    ELSE ScanTimeline_MostRecentOnly(resp, roomID, tl, i - 1)

\* ScanTimeline deleting the room from Leave as well.
RECURSIVE ScanTimeline_DropsLeave(_, _, _, _)
ScanTimeline_DropsLeave(resp, roomID, tl, i) ==
  IF i < 1 THEN resp
  ELSE LET e == tl[i] IN
    IF e.type = MemberEventType /\ e.stateKey # NoKey /\ e.stateKey = UserID
       /\ e.membership.isString /\ e.membership.val = "join"
       /\ roomID \in DOMAIN resp.join
    THEN [resp EXCEPT
            !.join = [r \in DOMAIN resp.join \ {roomID} |-> resp.join[r]],
            !.invite = [r \in DOMAIN resp.invite \ {roomID} |-> resp.invite[r]],
            !.leave = [r \in DOMAIN resp.leave \ {roomID} |-> resp.leave[r]]]
    ELSE ScanTimeline_DropsLeave(resp, roomID, tl, i - 1)

\* The inner loop of shouldProcessResponse for one joined room: timeline
\* events tl[i], tl[i-1], ..., tl[1]; the response with the room deleted from
\* Join and Invite at the first own membership event that is "join".
RECURSIVE ScanTimeline(_, _, _, _)
ScanTimeline(resp, roomID, tl, i) ==
  IF i < 1 THEN resp
  ELSE LET e == tl[i] IN
    IF e.type = MemberEventType /\ e.stateKey # NoKey /\ e.stateKey = UserID
    THEN IF ~e.membership.isString
         THEN ScanTimeline(resp, roomID, tl, i - 1)
         ELSE IF e.membership.val = "join"
              THEN IF roomID \notin DOMAIN resp.join
                   THEN ScanTimeline(resp, roomID, tl, i - 1)
                   ELSE [resp EXCEPT
                           !.join = [r \in DOMAIN resp.join \ {roomID} |-> resp.join[r]],
                           !.invite = [r \in DOMAIN resp.invite \ {roomID} |-> resp.invite[r]]]
              ELSE ScanTimeline(resp, roomID, tl, i - 1)
    ELSE ScanTimeline(resp, roomID, tl, i - 1)

NoPos == [cat |-> "", todo |-> {}, room |-> NoRoom, part |-> "", idx |-> 0, cell |-> NilPtr]

RoomCats == {"join", "invite", "leave"}

\* The slice the current range statement of ProcessResponse iterates over.
CurSeq(r, p) ==
  IF p.cat = "account" THEN r.account
  ELSE IF p.cat = "presence" THEN r.presence
  ELSE r[p.cat][p.room][p.part]

InSlice(p) == p.cat \in {"account", "presence"} \/ (p.cat \in RoomCats /\ p.part # "")

\* PREnter without the test of since.
PREnter_NoSinceCheck ==
  /\ Running /\ ppc = "enter"
  /\ ppc' = "should"
  /\ pos' = [NoPos EXCEPT !.cat = "should", !.todo = DOMAIN res.join]
  /\ UNCHANGED <<res, since, perr, chanVars, lockVars, regVars, scanVars, stopVars, fatal, res0, failed>>

\* ProcessResponse is entered: shouldProcessResponse returns false on since == "",
\* else starts to range over resp.Rooms.Join.
PREnter ==
  /\ Running /\ ppc = "enter"
  /\ IF since = ""
     THEN /\ ppc' = "returned"
          /\ pos' = pos
     ELSE /\ ppc' = "should"
          /\ pos' = [NoPos EXCEPT !.cat = "should", !.todo = DOMAIN res.join]
  /\ UNCHANGED <<res, since, perr, chanVars, lockVars, regVars, scanVars, stopVars, fatal, res0, failed>>

\* One iteration of shouldProcessResponse's range over resp.Rooms.Join.
SPRRoom ==
  /\ Running /\ ppc = "should"
  /\ \E roomID \in pos.todo \cap DOMAIN res.join :
       /\ res' = ScanTimeline(res, roomID, res.join[roomID].timeline,
                              Len(res.join[roomID].timeline))
       /\ pos' = [pos EXCEPT !.todo = @ \ {roomID}]
  /\ UNCHANGED <<since, ppc, perr, chanVars, lockVars, regVars, scanVars, stopVars, fatal, res0, failed>>

\* AfterSlice with a room's ephemeral events ranged over before its timeline.
AfterSlice_EphemeralFirst(r, p) ==
  IF p.cat = "account" THEN [NoPos EXCEPT !.cat = "presence"]
  ELSE IF p.cat = "presence" THEN [NoPos EXCEPT !.cat = "join", !.todo = DOMAIN r.join]
  ELSE IF p.cat = "join" /\ p.part = "state" THEN [p EXCEPT !.part = "ephemeral", !.idx = 0]
  ELSE IF p.cat = "join" /\ p.part = "ephemeral" THEN [p EXCEPT !.part = "timeline", !.idx = 0]
  ELSE [p EXCEPT !.part = "", !.room = NoRoom, !.idx = 0]

\* The statement after a range over a slice: the next range of ProcessResponse.
AfterSlice(r, p) ==
  IF p.cat = "account" THEN [NoPos EXCEPT !.cat = "presence"]
  ELSE IF p.cat = "presence" THEN [NoPos EXCEPT !.cat = "join", !.todo = DOMAIN r.join]
  ELSE IF p.cat = "join" /\ p.part = "state" THEN [p EXCEPT !.part = "timeline", !.idx = 0]
  ELSE IF p.cat = "join" /\ p.part = "timeline" THEN [p EXCEPT !.part = "ephemeral", !.idx = 0]
  ELSE [p EXCEPT !.part = "", !.room = NoRoom, !.idx = 0]

\* The statement after a range over a room map.
AfterMap(r, p) ==
  IF p.cat = "join" THEN [NoPos EXCEPT !.cat = "invite", !.todo = DOMAIN r.invite]
  ELSE IF p.cat = "invite" THEN [NoPos EXCEPT !.cat = "leave", !.todo = DOMAIN r.leave]
  ELSE [NoPos EXCEPT !.cat = "end"]

\* Where the loops of ProcessResponse can stand next, from p: before the next
\* element of a slice, or at the end. Ranges with nothing left are passed
\* through; a range over a room map yields its entries in no fixed order.
RECURSIVE Settle(_, _)
Settle(r, p) ==
  IF p.cat = "end" THEN {p}
  ELSE IF InSlice(p)
    THEN IF p.idx < Len(CurSeq(r, p)) THEN {p} ELSE Settle(r, AfterSlice(r, p))
  ELSE IF p.todo = {} THEN Settle(r, AfterMap(r, p))
  ELSE UNION {Settle(r, [p EXCEPT !.todo = @ \ {roomID}, !.room = roomID, !.idx = 0,
                                  !.part = IF p.cat = "leave" THEN "timeline" ELSE "state"]) :
              roomID \in p.todo}

\* shouldProcessResponse returns true; ProcessResponse installs its recover and
\* starts the range over res.AccountData.Events.
SPRReturn ==
  /\ Running /\ ppc = "should"
  /\ pos.todo \cap DOMAIN res.join = {}
  /\ ppc' = "next"
  /\ pos' \in Settle(res, [NoPos EXCEPT !.cat = "account"])
  /\ UNCHANGED <<res, since, perr, chanVars, lockVars, regVars, scanVars, stopVars, fatal, res0, failed>>

\* ------------------------------------------------------ ProcessResponse
\* PRNext refusing a membership event of the local account whose membership is
\* not a string, or a membership event without state key.
PRNext_RejectsMalformed ==
  /\ Running /\ ppc = "next" /\ pos.cat # "end"
  /\ LET c == IF shareLoopVar /\ pos.idx > 0 THEN pos.cell ELSE Len(heap) + 1
         e == CurSeq(res, pos)[pos.idx + 1]
     IN IF e.type = MemberEventType /\ (e.stateKey = NoKey \/ ~e.membership.isString)
        THEN /\ perr' = "panic" /\ ppc' = "returned"
             /\ UNCHANGED <<heap, pos>>
        ELSE /\ heap' = [x \in 1..(IF c > Len(heap) THEN c ELSE Len(heap)) |->
                           IF x = c THEN e ELSE heap[x]]
             /\ pos' = [pos EXCEPT !.idx = @ + 1, !.cell = c]
             /\ ppc' = IF pos.cat \in RoomCats THEN "stamp" ELSE "send"
             /\ perr' = perr
  /\ UNCHANGED <<res, since, shareLoopVar, evBuf, evCap, evClosed, sent,
                 lockVars, regVars, scanVars, stopVars, fatal, res0, failed>>

\* The loop variable takes the next element of the slice. Its address is sent,
\* so it lives on the heap: one variable per range statement, or per iteration.
PRNext ==
  /\ Running /\ ppc = "next" /\ pos.cat # "end"
  /\ LET c == IF shareLoopVar /\ pos.idx > 0 THEN pos.cell ELSE Len(heap) + 1
         e == CurSeq(res, pos)[pos.idx + 1]
     IN /\ heap' = [x \in 1..(IF c > Len(heap) THEN c ELSE Len(heap)) |->
                      IF x = c THEN e ELSE heap[x]]
        /\ pos' = [pos EXCEPT !.idx = @ + 1, !.cell = c]
  /\ ppc' = IF pos.cat \in RoomCats THEN "stamp" ELSE "send"
  /\ UNCHANGED <<res, since, perr, shareLoopVar, evBuf, evCap, evClosed, sent,
                 lockVars, regVars, scanVars, stopVars, fatal, res0, failed>>

\* The last range has ended: ProcessResponse returns its (nil) error.
PRReturn ==
  /\ Running /\ ppc = "next" /\ pos.cat = "end"
  /\ ppc' = "returned"
  /\ UNCHANGED <<res, since, pos, perr, chanVars, lockVars, regVars, scanVars, stopVars, fatal, res0, failed>>

\* event.RoomID = roomID
PRStamp ==
  /\ Running /\ ppc = "stamp"
  /\ heap' = [heap EXCEPT ![pos.cell].roomID = pos.room]
  /\ ppc' = "send"
  /\ UNCHANGED <<res, since, pos, perr, shareLoopVar, evBuf, evCap, evClosed, sent,
                 lockVars, regVars, scanVars, stopVars, fatal, res0, failed>>

\* s.eventsChan <- &e into the buffer; on a closed channel the send panics and
\* the deferred recover turns the panic into the returned error.
PRSend ==
  /\ Running /\ ppc = "send"
  /\ evClosed \/ Len(evBuf) < evCap
  /\ IF evClosed
     THEN /\ perr' = "panic"
          /\ ppc' = "returned"
          /\ UNCHANGED <<evBuf, sent, pos>>
     ELSE /\ evBuf' = Append(evBuf, pos.cell)
          /\ sent' = Append(sent, heap[pos.cell])
          /\ ppc' = "next"
          /\ pos' \in Settle(res, pos)
          /\ perr' = perr
  /\ UNCHANGED <<res, since, heap, shareLoopVar, evCap, evClosed,
                 lockVars, regVars, scanVars, stopVars, fatal, res0, failed>>

\* The owner of the events channel closes it, once the producer is done.
CloseEvents ==
  /\ Running /\ ~evClosed /\ ppc = "returned"
  /\ evClosed' = TRUE
  /\ UNCHANGED <<prodVars, heap, shareLoopVar, evBuf, evCap, sent,
                 lockVars, regVars, scanVars, stopVars, fatal, res0, failed>>

\* ------------------------------------------------------ defaultListener.On
\* On(eType, callback) is called: the k-th call registers callback k. The calls
\* in flight are onst, each with its place (pc) and its locals.
OnCall ==
  /\ Running /\ nOn < MaxOn
  /\ \E t \in EventTypes :
       onst' = onst \cup {[pc |-> "lock", eType |-> t, callback |-> nOn + 1,
                           callsList |-> <<>>]}
  /\ nOn' = nOn + 1
  /\ UNCHANGED <<prodVars, chanVars, lockVars, listeners, acquired, scanVars, stopVars, fatal, res0, failed>>

\* OnLock with rw.w not excluding a second writer.
OnLock_NoExclusion ==
  /\ Running
  /\ \E o \in onst :
       /\ o.pc = "lock"
       /\ LET r == IF wLocked THEN 0 ELSE readerCount IN
            /\ readerCount' = IF wLocked THEN readerCount ELSE readerCount - rwmutexMaxReaders
            /\ readerWait' = IF r # 0 THEN readerWait + r ELSE readerWait
            /\ onst' = (onst \ {o}) \cup
                 {[o EXCEPT !.pc = IF r # 0 /\ readerWait + r # 0 THEN "wait" ELSE "locked"]}
            /\ acquired' = Append(acquired, [eType |-> o.eType, callback |-> o.callback])
  /\ wLocked' = TRUE
  /\ UNCHANGED <<prodVars, chanVars, readerSem, listeners, nOn, scanVars, stopVars, fatal, res0, failed>>

\* listenersRWMut.Lock(): rw.w.Lock() resolves competition between writers,
\* then the writer is announced to the readers; with readers inside it waits
\* on writerSem until the last of them has left. Only RUnlock releases
\* writerSem, and nothing in the program calls RUnlock.
OnLock ==
  /\ Running /\ ~wLocked
  /\ \E o \in onst :
       /\ o.pc = "lock"
       /\ LET r == readerCount IN
            /\ readerCount' = readerCount - rwmutexMaxReaders
            /\ readerWait' = IF r # 0 THEN readerWait + r ELSE readerWait
            /\ onst' = (onst \ {o}) \cup
                 {[o EXCEPT !.pc = IF r # 0 /\ readerWait + r # 0 THEN "wait" ELSE "locked"]}
            /\ acquired' = Append(acquired, [eType |-> o.eType, callback |-> o.callback])
  /\ wLocked' = TRUE
  /\ UNCHANGED <<prodVars, chanVars, readerSem, listeners, nOn, scanVars, stopVars, fatal, res0, failed>>

\* callsList, ok := l.listeners[eType]; make([]EventListenerCallback, 1) if
\* absent; append(callsList, callback); l.listeners[eType] = callsList.
OnStore ==
  /\ Running
  /\ \E o \in onst :
       /\ o.pc = "locked"
       /\ LET old == IF o.eType \in DOMAIN listeners THEN listeners[o.eType] ELSE <<NilFn>>
              new == Append(old, o.callback)
          IN /\ listeners' = [t \in DOMAIN listeners \cup {o.eType} |->
                                IF t = o.eType THEN new ELSE listeners[t]]
             /\ onst' = (onst \ {o}) \cup {[o EXCEPT !.pc = "unlock"]}
  /\ UNCHANGED <<prodVars, chanVars, lockVars, nOn, acquired, scanVars, stopVars, fatal, res0, failed>>

\* sync.RWMutex.Unlock, as On and call both call it: the runtime ends the
\* process when no writer is announced, or when rw.w is not held.
RWUnlock(who) ==
  LET r == readerCount + rwmutexMaxReaders IN
    /\ readerCount' = r
    /\ IF r >= rwmutexMaxReaders
       THEN /\ fatal' = [msg |-> "sync: Unlock of unlocked RWMutex", in |-> who]
            /\ UNCHANGED <<readerSem, wLocked>>
       ELSE /\ readerSem' = readerSem + r
            /\ IF ~wLocked
               THEN /\ fatal' = [msg |-> "sync: unlock of unlocked mutex", in |-> who]
                    /\ wLocked' = wLocked
               ELSE /\ wLocked' = FALSE
                    /\ fatal' = fatal
    /\ readerWait' = readerWait

\* listenersRWMut.Unlock() in On; On returns.
OnUnlock ==
  /\ Running
  /\ \E o \in onst :
       /\ o.pc = "unlock"
       /\ onst' = onst \ {o}
  /\ RWUnlock("On")
  /\ UNCHANGED <<prodVars, chanVars, listeners, nOn, acquired, scanVars, stopVars, res0, failed>>

\* ------------------------------------------- defaultListener.scanEvents
\* What l.call(e) does on entry: nothing for a nil event.
AfterRecv(e) ==
  /\ cur' = e
  /\ spc' = IF e = NilPtr THEN "select" ELSE "rlock"
  /\ lerr' = IF e = NilPtr THEN "nil" ELSE lerr
  /\ invoked' = <<>>
  /\ UNCHANGED <<callsList, ci, sret, ndispatched>>

\* case e, ok := <-l.events, from the buffer.
ScanRecv ==
  /\ Running /\ spc = "select"
  /\ Len(evBuf) > 0
  /\ evBuf' = Tail(evBuf)
  /\ AfterRecv(Head(evBuf))
  /\ UNCHANGED <<prodVars, heap, shareLoopVar, evCap, evClosed, sent,
                 lockVars, regVars, stopVars, fatal, res0, failed>>

\* case e, ok := <-l.events on an unbuffered channel: the producer blocked in
\* its send hands the pointer over and goes on.
ScanRecvDirect ==
  /\ Running /\ spc = "select"
  /\ evCap = 0 /\ ~evClosed /\ ppc = "send"
  /\ sent' = Append(sent, heap[pos.cell])
  /\ ppc' = "next"
  /\ pos' \in Settle(res, pos)
  /\ AfterRecv(pos.cell)
  /\ UNCHANGED <<res, since, perr, heap, shareLoopVar, evBuf, evCap, evClosed,
                 lockVars, regVars, stopVars, fatal, res0, failed>>

\* case e, ok := <-l.events with !ok: the channel is closed and drained.
ScanClosed ==
  /\ Running /\ spc = "select"
  /\ evClosed /\ evBuf = <<>>
  /\ spc' = "returned" /\ sret' = lerr
  /\ UNCHANGED <<prodVars, chanVars, lockVars, regVars, cur, callsList, ci, lerr,
                 invoked, ndispatched, stopVars, fatal, res0, failed>>

\* case <-l.stopCh: a goroutine blocked in stop() is released.
ScanStop ==
  /\ Running /\ spc = "select"
  /\ stopWaiting > 0
  /\ stopWaiting' = stopWaiting - 1 /\ stopReturned' = stopReturned + 1
  /\ spc' = "returned" /\ sret' = lerr
  /\ UNCHANGED <<prodVars, chanVars, lockVars, regVars, cur, callsList, ci, lerr,
                 invoked, ndispatched, ctxDone, pushedAtSignal, fatal, res0, failed>>

\* case <-ctx.Done()
ScanCtx ==
  /\ Running /\ spc = "select"
  /\ ctxDone
  /\ spc' = "returned" /\ sret' = "ctx"
  /\ UNCHANGED <<prodVars, chanVars, lockVars, regVars, cur, callsList, ci, lerr,
                 invoked, ndispatched, stopVars, fatal, res0, failed>>

\* ------------------------------------------------- defaultListener.call
\* l.listenersRWMut.RLock()
CallRLock ==
  /\ Running /\ spc = "rlock"
  /\ readerCount' = readerCount + 1
  /\ spc' = IF readerCount + 1 < 0 THEN "rwait" ELSE "read"
  /\ UNCHANGED <<prodVars, chanVars, readerWait, wLocked, readerSem, regVars,
                 cur, callsList, ci, lerr, sret, invoked, ndispatched, stopVars, fatal, res0, failed>>

\* RLock found a writer announced: it sleeps on readerSem.
CallRWait ==
  /\ Running /\ spc = "rwait"
  /\ readerSem > 0
  /\ readerSem' = readerSem - 1
  /\ spc' = "read"
  /\ UNCHANGED <<prodVars, chanVars, readerCount, readerWait, wLocked, regVars,
                 cur, callsList, ci, lerr, sret, invoked, ndispatched, stopVars, fatal, res0, failed>>

\* callsList, ok := l.listeners[e.Type]
CallRead ==
  /\ Running /\ spc = "read"
  /\ LET t == heap[cur].type IN
       callsList' = IF t \in DOMAIN listeners
                    THEN [ok |-> TRUE, fns |-> listeners[t]]
                    ELSE NoList
  /\ spc' = "unlock"
  /\ UNCHANGED <<prodVars, chanVars, lockVars, regVars, cur, ci, lerr, sret,
                 invoked, ndispatched, stopVars, fatal, res0, failed>>

\* l.listenersRWMut.Unlock() after RLock, then "if !ok { return }"; scanEvents
\* stores the nil error and selects again.
CallUnlock ==
  /\ Running /\ spc = "unlock"
  /\ RWUnlock("call")
  /\ IF fatal' # NoFatal
     THEN UNCHANGED <<spc, ci, lerr, ndispatched>>
     ELSE IF ~callsList.ok
       THEN /\ spc' = "select" /\ lerr' = "nil" /\ ndispatched' = ndispatched + 1
            /\ ci' = ci
       ELSE /\ spc' = "loop" /\ ci' = 1
            /\ UNCHANGED <<lerr, ndispatched>>
  /\ UNCHANGED <<prodVars, chanVars, regVars, cur, callsList, sret, invoked, stopVars, res0, failed>>

\* One iteration of "for _, fn := range callsList { fn(e) }". A nil fn, or a
\* callback that panics, is recovered: call returns the error, scanEvents
\* stores it in l.err and returns it. After the last fn call returns nil.
CallLoop ==
  /\ Running /\ spc = "loop"
  /\ IF ci > Len(callsList.fns)
     THEN /\ spc' = "select" /\ lerr' = "nil" /\ ndispatched' = ndispatched + 1
          /\ UNCHANGED <<ci, sret, invoked>>
     ELSE LET fn == callsList.fns[ci] IN
       /\ invoked' = IF fn = NilFn THEN invoked
                     ELSE Append(invoked, [cb |-> fn, ev |-> heap[cur]])
       /\ IF fn = NilFn \/ fn \in FaultyCallbacks
          THEN /\ lerr' = "panic" /\ sret' = "panic" /\ spc' = "returned"
               /\ ndispatched' = ndispatched + 1
               /\ ci' = ci
          ELSE /\ ci' = ci + 1
               /\ UNCHANGED <<spc, lerr, sret, ndispatched>>
  /\ UNCHANGED <<prodVars, chanVars, lockVars, regVars, cur, callsList, stopVars, fatal, res0, failed>>

\* --------------------------------------------------------- stop, cancel
\* stop(): l.stopCh <- struct{}{} on the unbuffered stopCh blocks until
\* scanEvents receives.
StopCall ==
  /\ Running /\ stopWaiting + stopReturned < MaxStop
  /\ stopWaiting' = stopWaiting + 1
  /\ pushedAtSignal' = IF pushedAtSignal = -1 THEN Len(sent) ELSE pushedAtSignal
  /\ UNCHANGED <<prodVars, chanVars, lockVars, regVars, scanVars, stopReturned, ctxDone, fatal, res0, failed>>

\* The context given to scanEvents is cancelled.
Cancel ==
  /\ Running /\ ~ctxDone
  /\ ctxDone' = TRUE
  /\ pushedAtSignal' = IF pushedAtSignal = -1 THEN Len(sent) ELSE pushedAtSignal
  /\ UNCHANGED <<prodVars, chanVars, lockVars, regVars, scanVars, stopWaiting, stopReturned, fatal, res0, failed>>

\* -------------------------------------------------------- specifications
InitListener ==
  /\ listeners = <<>>
  /\ readerCount = 0 /\ readerWait = 0 /\ wLocked = FALSE
  /\ readerSem = 0
  /\ onst = {} /\ nOn = 0 /\ acquired = <<>>
  /\ spc \in {"idle", "select"} /\ cur = NilPtr /\ callsList = NoList /\ ci = 0
  /\ lerr = "nil" /\ sret = "none" /\ invoked = <<>> /\ ndispatched = 0
  /\ stopWaiting = 0 /\ stopReturned = 0 /\ ctxDone = FALSE /\ pushedAtSignal = -1
  /\ fatal = NoFatal
  /\ failed = <<>>

InitProducer ==
  /\ ppc = "enter" /\ pos = NoPos /\ perr = "nil"
  /\ heap = <<>> /\ shareLoopVar \in BOOLEAN
  /\ evBuf = <<>> /\ evClosed = FALSE /\ sent = <<>>

\* ProcessResponse alone, on a channel with room for every event of the response.
InitSync ==
  /\ res \in Responses(MaxTimelineEvents) /\ res0 = res
  /\ evCap = NumEvents(res)
  /\ since \in {"", "s1"}
  /\ InitProducer /\ InitListener /\ spc = "idle"

NextSync ==
  \/ PREnter \/ SPRRoom \/ SPRReturn
  \/ PRNext \/ PRStamp \/ PRSend \/ PRReturn

SpecSync == InitSync /\ [][NextSync]_vars

\* The producer, the listener goroutine, the goroutines calling On, stop() and
\* the cancellation of the context, on a channel of any capacity 0..MaxChanCap.
Init ==
  /\ res \in ListenerResponses(MaxTimelineEvents) /\ res0 = res
  /\ evCap \in 0..MaxChanCap
  /\ since = "s1"
  /\ InitProducer /\ InitListener /\ spc = "select"

Next ==
  \/ PREnter \/ SPRRoom \/ SPRReturn
  \/ PRNext \/ PRStamp \/ PRSend \/ PRReturn
  \/ CloseEvents
  \/ OnCall \/ OnLock \/ OnStore \/ OnUnlock
  \/ ScanRecv \/ ScanRecvDirect \/ ScanClosed \/ ScanStop \/ ScanCtx
  \/ CallRLock \/ CallRWait \/ CallRead \/ CallUnlock \/ CallLoop
  \/ StopCall \/ Cancel

Spec == Init /\ [][Next]_vars

\* ------------------------------------------------------------ properties
NotNil(fn) == fn # NilFn
\* The callbacks On was given for a type, in the order stored: the list without nil entries.
Registered(fns) == SelectSeq(fns, NotNil)
\* The callbacks call has invoked for the current event, in order.
InvokedCallbacks == [i \in 1..Len(invoked) |-> invoked[i].cb]
\* call has returned for the last event received, or the process died inside it.
CallEnded == spc \in {"select", "returned"} /\ ndispatched > 0
CallAborted == fatal.in = "call"

\* C1: a dispatch of an event of type T invokes exactly the callbacks registered
\* for T, each once, in registration order: when call has ended for an event
\* whose type has listeners, the callbacks it invoked are the registered ones.
C1_InvokesRegistered ==
  ((CallEnded \/ CallAborted) /\ callsList.ok) =>
    InvokedCallbacks = Registered(callsList.fns)

\* Two callbacks are registered for the event's type and the first one faults.
FirstOfTwoFaults ==
  /\ callsList.ok
  /\ Len(Registered(callsList.fns)) >= 2
  /\ Registered(callsList.fns)[1] \in FaultyCallbacks
\* listenersRWMut as NewDefaultListener left it.
LockFree == readerCount = 0 /\ readerWait = 0 /\ ~wLocked /\ readerSem = 0

\* C2: listener isolation: when the first of two callbacks registered for a
\* type faults, call returns a non-nil error, nothing escapes call, and the
\* registry's lock is afterwards as it was before the dispatch.
C2_ListenerIsolation ==
  (FirstOfTwoFaults /\ (CallEnded \/ CallAborted)) =>
    /\ fatal = NoFatal
    /\ lerr = "panic"
    /\ (onst = {} => LockFree)

\* call is between its RLock and its release.
ReaderInside == spc \in {"rwait", "read", "unlock"}
\* An On has announced itself as writer and not yet released.
WriterAnnounced == \E o \in onst : o.pc \in {"wait", "locked", "unlock"}
WriterInside == \E o \in onst : o.pc \in {"locked", "unlock"}

\* C3: shared-read/exclusive-write discipline: the lock is never released in a
\* mode in which it is not held, so readerCount counts the readers inside
\* (less rwmutexMaxReaders while a writer is announced), rw.w is held exactly
\* by an announced writer, and call never reads the map while an On is inside.
C3_LockDiscipline ==
  /\ fatal = NoFatal
  /\ readerCount = (IF ReaderInside THEN 1 ELSE 0)
                   - (IF WriterAnnounced THEN rwmutexMaxReaders ELSE 0)
  /\ wLocked <=> WriterAnnounced
  /\ ~(spc \in {"read", "unlock"} /\ WriterInside)

\* ------------------------------------------- properties of ProcessResponse
\* ProcessResponse has returned nil for a response that was to be processed.
Emitted == ppc = "returned" /\ since # "" /\ perr = "nil"

IsOwnMembership(e) == e.type = MemberEventType /\ e.stateKey = UserID
IsOwnJoin(e) == IsOwnMembership(e) /\ e.membership.isString /\ e.membership.val = "join"
\* The timeline holds a membership event of the local account that is "join".
HasOwnJoin(tl) == \E i \in 1..Len(tl) : IsOwnJoin(tl[i])
\* Scanning from the most recent event, such an event comes before any other
\* membership event of the local account.
MostRecentOwnIsJoin(tl) ==
  \E i \in 1..Len(tl) :
    IsOwnJoin(tl[i]) /\ \A j \in (i + 1)..Len(tl) : ~IsOwnMembership(tl[j])

SentIds == {sent[i].id : i \in 1..Len(sent)}
SliceIds(sq) == {sq[i].id : i \in 1..Len(sq)}
\* The events of a response, by category.
JoinIds(r, room) ==
  IF room \in DOMAIN r.join
  THEN SliceIds(r.join[room].state) \cup SliceIds(r.join[room].timeline)
       \cup SliceIds(r.join[room].ephemeral)
  ELSE {}
InviteIds(r, room) == IF room \in DOMAIN r.invite THEN SliceIds(r.invite[room].state) ELSE {}
LeaveIds(r, room) == IF room \in DOMAIN r.leave THEN SliceIds(r.leave[room].timeline) ELSE {}
AllIds(r) ==
  SliceIds(r.account) \cup SliceIds(r.presence)
  \cup UNION {JoinIds(r, room) \cup InviteIds(r, room) \cup LeaveIds(r, room) : room \in Rooms}
\* The event of the response an id names.
EventAt(r, id) ==
  IF id.cat = "account" THEN r.account[id.idx]
  ELSE IF id.cat = "presence" THEN r.presence[id.idx]
  ELSE r[id.cat][id.room][id.part][id.idx]

\* C4: initial sync suppression: with since = "" ProcessResponse sends nothing,
\* returns nil and leaves the response (its Join and Invite maps) as it was.
C4_InitialSyncSuppressed ==
  since = "" => (sent = <<>> /\ evBuf = <<>> /\ perr = "nil" /\ res = res0)
\* The call has returned on a response whose events and own join the
\* non-initial path would have acted on.
C4_Witness ==
  /\ since = "" /\ ppc = "returned"
  /\ \E r \in DOMAIN res0.join : HasOwnJoin(res0.join[r].timeline)

CatRank(c) ==
  CASE c = "account" -> 1 [] c = "presence" -> 2 [] c = "join" -> 3
    [] c = "invite" -> 4 [] c = "leave" -> 5
PartRank(p) ==
  CASE p = "state" -> 1 [] p = "timeline" -> 2 [] p = "ephemeral" -> 3 [] p = "" -> 0
\* Event a may be sent before event b.
MayPrecede(a, b) ==
  \/ CatRank(a.cat) < CatRank(b.cat)
  \/ /\ a.cat = b.cat
     /\ \/ a.room # b.room
        \/ PartRank(a.part) < PartRank(b.part)
        \/ a.part = b.part /\ a.idx < b.idx
\* sq follows the emission order: categories in order, each room's events
\* together, within a room state, timeline, ephemeral, each slice in its order.
EmissionOrdered(sq) ==
  /\ \A i, j \in 1..Len(sq) : i < j => MayPrecede(sq[i].id, sq[j].id)
  /\ \A i, k \in 1..Len(sq) :
       (i < k /\ sq[i].id.cat = sq[k].id.cat /\ sq[i].id.room = sq[k].id.room)
         => (sq[k - 1].id.cat = sq[i].id.cat /\ sq[k - 1].id.room = sq[i].id.room)

\* C5: emission order: what ProcessResponse sends is at every moment in the
\* order account, presence, joined rooms (state, timeline, ephemeral), invited
\* rooms (state), left rooms (timeline); each event sent is an event of the
\* response; at the return none of the response left by the dedup is missing
\* and none was sent twice.
C5_EmissionOrder ==
  since # "" =>
    LET ids == AllIds(res) IN
      /\ EmissionOrdered(sent)
      /\ \A i \in 1..Len(sent) :
           /\ sent[i].id \in ids
           /\ [sent[i] EXCEPT !.roomID = NoRoom] = EventAt(res, sent[i].id)
      /\ (Emitted => (SentIds = ids /\ Len(sent) = Cardinality(ids)))
\* Both rooms were emitted as joined, invited and left rooms, with a timeline.
C5_Witness ==
  /\ Emitted
  /\ DOMAIN res.join = Rooms /\ DOMAIN res.invite = Rooms /\ DOMAIN res.leave = Rooms
  /\ \E r \in Rooms : Len(res.join[r].timeline) = MaxTimelineEvents

\* None of the room's joined or invited entries was sent.
RoomAbsent(room) ==
  \A i \in 1..Len(sent) : ~(sent[i].id.room = room /\ sent[i].id.cat \in {"join", "invite"})
\* All of the room's joined and invited entries were sent.
RoomEmitted(room) == (JoinIds(res0, room) \cup InviteIds(res0, room)) \subseteq SentIds

\* C6 as claimed: a joined room is absent from the emitted sequence if and only
\* if its most recent own membership event is a "join"; any other joined room
\* is emitted normally.
C6_MostRecentDecides ==
  Emitted =>
    \A room \in DOMAIN res0.join :
      IF MostRecentOwnIsJoin(res0.join[room].timeline)
      THEN RoomAbsent(room) ELSE RoomEmitted(room)

\* C6 as amended: a joined room is absent from the emitted sequence if and only
\* if its timeline holds some membership event of the local account whose
\* membership is the string "join", whatever own membership events follow it;
\* any other joined room is emitted normally.
C6_AnyOwnJoinDecides ==
  Emitted =>
    \A room \in DOMAIN res0.join :
      IF HasOwnJoin(res0.join[room].timeline)
      THEN RoomAbsent(room) ELSE RoomEmitted(room)
\* A room with an own join that a later own membership event follows was
\* dropped, with its invite, while the other joined room was emitted.
C6_Witness ==
  /\ Emitted
  /\ \E room \in DOMAIN res0.join :
       /\ HasOwnJoin(res0.join[room].timeline)
       /\ ~MostRecentOwnIsJoin(res0.join[room].timeline)
       /\ room \in DOMAIN res0.invite
       /\ RoomAbsent(room)
  /\ \E room \in DOMAIN res0.join :
       ~HasOwnJoin(res0.join[room].timeline) /\ RoomEmitted(room)

\* C7: when ProcessResponse has returned nil, every event it sent has been
\* fully dispatched: call has ended for each of them.
C7_DispatchedAtReturn ==
  (ppc = "returned" /\ perr = "nil") => ndispatched = Len(sent)

\* C8: ProcessResponse returns a non-nil error whenever a listener callback
\* panicked on an event of the response.
C8_ListenerPanicIsReturned ==
  (ppc = "returned" /\ lerr = "panic") => perr # "nil"

\* A callback that faults is registered for the type of the event call handles.
FaultyListed ==
  callsList.ok /\ \E i \in 1..Len(callsList.fns) : callsList.fns[i] \in FaultyCallbacks

\* C9: a faulting callback makes scanEvents return the listener panic as its
\* error, with no further dispatch; nothing propagates out of scanEvents.
C9_FaultEndsScanEvents ==
  (FaultyListed /\ (CallEnded \/ CallAborted)) =>
    /\ fatal = NoFatal
    /\ spc = "returned" /\ sret = "panic" /\ lerr = "panic"

\* scanEvents returned on the stop signal or on the cancellation.
StoppedBySignal == spc = "returned" /\ (stopReturned > 0 \/ sret = "ctx")

\* C10: drain-and-exit: when scanEvents returns on stop() or on cancellation,
\* every event sent before the signal has been dispatched.
C10_DrainsBeforeExit ==
  StoppedBySignal => ndispatched >= pushedAtSignal

\* --------------------------------------------- cancellation, stop, close
\* C11: cancellation wins over dispatch: once ctx.Done() is closed, scanEvents
\* in its select takes no event from the channel, and when it returns it
\* returns ctx.Err(), not l.err.
C11_CancellationWins ==
  [][(ctxDone /\ spc = "select") =>
       /\ spc' # "rlock"
       /\ (spc' = "returned" => sret' = "ctx")]_vars

\* The steps of the three kinds of goroutine. The Go scheduler runs every
\* goroutine that can take a step; stop(), the cancellation, the calls of On
\* and the close of the channel are the caller's to make or not.
ProducerStep ==
  \/ PREnter \/ SPRRoom \/ SPRReturn
  \/ PRNext \/ PRStamp \/ PRSend \/ PRReturn
ListenerStep ==
  \/ ScanRecv \/ ScanRecvDirect \/ ScanClosed \/ ScanStop \/ ScanCtx
  \/ CallRLock \/ CallRWait \/ CallRead \/ CallUnlock \/ CallLoop
OnStep == OnLock \/ OnStore \/ OnUnlock

SpecLive ==
  /\ Init /\ [][Next]_vars
  /\ WF_vars(ProducerStep) /\ WF_vars(ListenerStep) /\ WF_vars(OnStep)

\* C12: every call of ProcessResponse eventually returns (unless the runtime
\* has ended the process), also when scanEvents has already returned while
\* events of the response remain to be sent.
C12_ProducerReturns == <>(ppc = "returned" \/ fatal # NoFatal)

\* C16: every call of stop() eventually returns (unless the runtime has ended
\* the process), whatever scanEvents is doing or has done.
C16_StopReturns == (stopWaiting > 0) ~> (stopWaiting = 0 \/ fatal # NoFatal)

\* ------------------------------------------------------------ registration
\* The producer, the listener goroutine and the goroutines calling On, with
\* neither stop() nor cancellation nor close of the channel.
NextOn ==
  \/ PREnter \/ SPRRoom \/ SPRReturn
  \/ PRNext \/ PRStamp \/ PRSend \/ PRReturn
  \/ OnCall \/ OnLock \/ OnStore \/ OnUnlock
  \/ ScanRecv \/ ScanRecvDirect
  \/ CallRLock \/ CallRWait \/ CallRead \/ CallUnlock \/ CallLoop

SpecOn == Init /\ [][NextOn]_vars

\* The call of On with this callback holds or awaits the lock and has not stored.
NotStored(cb) == \E o \in onst : o.callback = cb /\ o.pc \in {"wait", "locked"}
\* The callbacks stored for a type by the calls of On, in the order in which
\* the calls acquired the lock.
StoredFor(t) ==
  LET took(a) == a.eType = t /\ ~NotStored(a.callback)
      sq == SelectSeq(acquired, took)
  IN [i \in 1..Len(sq) |-> sq[i].callback]
ListFor(t) == IF t \in DOMAIN listeners THEN listeners[t] ELSE <<>>

\* C13: concurrent registration neither loses nor duplicates a callback: the
\* list of each type holds the callbacks of the calls of On for that type that
\* have stored, each once, in the order in which the calls acquired the lock;
\* so once all calls of On have returned it holds every registered callback.
C13_NoLostRegistration ==
  \A t \in EventTypes : Registered(ListFor(t)) = StoredFor(t)
\* Both calls of On for one type have returned, the second call having got the
\* lock before the first, while call is between its RLock and its release.
C13_Witness ==
  /\ nOn = MaxOn /\ onst = {}
  /\ \E t \in EventTypes : Registered(ListFor(t)) = <<2, 1>>
  /\ spc \in {"rwait", "read", "unlock"}

\* ---------------------------------------------------------- OnFailedSync
MaxFailures == 3         \* consecutive failed /sync requests in one run

Second == 1000           \* time.Second, durations counted in milliseconds

\* The last response handed to the failure policy (nil, or a response) and
\* the error of the failed request.
LastResponses == {"nil", "empty", "rooms"}
SyncErrors == {"timeout", "refused", "http500", "badJSON"}

\* OnFailedSync giving up when there is no last response.
OnFailedSync_FatalOnNil(resIn, errIn) ==
  IF resIn = "nil" THEN [wait |-> 0, err |-> errIn]
  ELSE [wait |-> 10 * Second, err |-> "nil"]

\* return 10 * time.Second, nil
OnFailedSync(resIn, errIn) == [wait |-> 10 * Second, err |-> "nil"]

\* A /sync request fails and the sync loop asks the failure policy.
FailSync ==
  /\ Len(failed) < MaxFailures
  /\ \E resIn \in LastResponses, errIn \in SyncErrors :
       failed' = Append(failed, [res |-> resIn, cause |-> errIn,
                                 answer |-> OnFailedSync(resIn, errIn)])
  /\ UNCHANGED <<prodVars, chanVars, lockVars, regVars, scanVars, stopVars, fatal, res0>>

InitFail ==
  /\ res \in ListenerResponses(0) /\ res0 = res
  /\ evCap = 0
  /\ since = "s1"
  /\ InitProducer /\ InitListener /\ spc = "idle"

SpecFail == InitFail /\ [][FailSync]_vars

\* C14: the default failure policy answers every failed /sync, whatever the
\* last response and the error and however many failures came before, with the
\* same wait of 10 seconds and no fatal error.
C14_FixedDelayNeverFatal ==
  \A i \in 1..Len(failed) :
    /\ failed[i].answer.wait = 10 * Second
    /\ failed[i].answer.err = "nil"
    /\ failed[i].answer.wait = failed[1].answer.wait
\* Three failures in a row, one of them with no last response, with
\* different errors.
C14_Witness ==
  /\ Len(failed) = MaxFailures
  /\ \E i \in 1..Len(failed) : failed[i].res = "nil"
  /\ \E i, j \in 1..Len(failed) : failed[i].cause # failed[j].cause

\* ------------------------------------------------- totality, dedup frame
\* The owner of the events channel closes it at any moment, also while
\* ProcessResponse is sending.
CloseEventsEarly ==
  /\ Running /\ ~evClosed
  /\ evClosed' = TRUE
  /\ UNCHANGED <<prodVars, heap, shareLoopVar, evBuf, evCap, sent,
                 lockVars, regVars, scanVars, stopVars, fatal, res0, failed>>

NextTotal ==
  \/ PREnter \/ SPRRoom \/ SPRReturn
  \/ PRNext \/ PRStamp \/ PRSend \/ PRReturn
  \/ CloseEventsEarly

\* ProcessResponse alone, on a channel that may be closed under it.
SpecTotal == InitSync /\ [][NextTotal]_vars

\* An event as sent is the response's event, but for the stamped room id.
SentOpaquely(e) == [e EXCEPT !.roomID = NoRoom] = EventAt(res0, e.id)

\* C15: decomposition is total: for a non-empty since ProcessResponse returns
\* a non-nil error only when the send on the events channel panicked (the
\* channel was closed); otherwise it returns nil having sent every event the
\* dedup left, whatever its type, state key or membership content, unchanged.
C15_DecompositionTotal ==
  since # "" =>
    /\ (perr # "nil" => (evClosed /\ ppc = "returned"))
    /\ ((ppc = "returned" /\ ~evClosed) => perr = "nil")
    /\ (Emitted => SentIds = AllIds(res))
    /\ \A i \in 1..Len(sent) : SentOpaquely(sent[i])
\* ProcessResponse returned nil having sent a membership event of the local
\* account with a non-string membership and one without state key, for a
\* response with no invited room.
C15_Witness ==
  /\ Emitted /\ ~evClosed
  /\ DOMAIN res0.invite = {}
  /\ \E i \in 1..Len(sent) : IsOwnMembership(sent[i]) /\ ~sent[i].membership.isString
  /\ \E i \in 1..Len(sent) : sent[i].type = MemberEventType /\ sent[i].stateKey = NoKey

\* The joined rooms of the response as received whose timeline holds an own join.
DedupRooms == {room \in DOMAIN res0.join : HasOwnJoin(res0.join[room].timeline)}
\* The entries the dedup removes: the joined and invited entries of those rooms.
DedupIds == UNION {JoinIds(res0, room) \cup InviteIds(res0, room) : room \in DedupRooms}
\* m is m0 without (some of) the rooms in D, every other entry as it was.
KeptFrom(m, m0, D) ==
  /\ DOMAIN m \subseteq DOMAIN m0
  /\ (DOMAIN m0 \ DOMAIN m) \subseteq D
  /\ \A room \in DOMAIN m : m[room] = m0[room]

\* C17: frame of the join-flood dedup: shouldProcessResponse removes nothing
\* but the joined and invited entries of rooms with an own join and changes no
\* other entry; whatever the order in which the maps are ranged over, exactly
\* those entries are missing when ProcessResponse returns, and the account
\* events, the presence events, the other rooms' entries and every left entry
\* are sent unchanged, the room-scoped ones stamped with their room.
C17_DedupFrame ==
  since # "" =>
    /\ res.account = res0.account /\ res.presence = res0.presence
    /\ res.leave = res0.leave
    /\ KeptFrom(res.join, res0.join, DedupRooms)
    /\ KeptFrom(res.invite, res0.invite, DedupRooms)
    /\ Emitted =>
         /\ DOMAIN res.join = DOMAIN res0.join \ DedupRooms
         /\ DOMAIN res.invite = DOMAIN res0.invite \ DedupRooms
         /\ SentIds = AllIds(res0) \ DedupIds
         /\ \A i \in 1..Len(sent) :
              /\ SentOpaquely(sent[i])
              /\ sent[i].roomID = sent[i].id.room
\* A joined and invited room with an own join was removed while its left
\* entry, the other room's joined and invited entries and the account and
\* presence events were sent.
C17_Witness ==
  /\ Emitted
  /\ \E room \in DedupRooms :
       /\ room \in DOMAIN res0.invite
       /\ RoomAbsent(room)
       /\ LeaveIds(res0, room) # {} /\ LeaveIds(res0, room) \subseteq SentIds
       /\ \E other \in DOMAIN res0.join \ DedupRooms :
            /\ Len(res0.join[other].timeline) > 0
            /\ (JoinIds(res0, other) \cup InviteIds(res0, other)) \subseteq SentIds
  /\ (SliceIds(res0.account) \cup SliceIds(res0.presence)) \subseteq SentIds

\* ------------------------------------------------- what the consumer sees
\* call is handling the event scanEvents received.
InCall == spc \in {"rlock", "rwait", "read", "unlock", "loop"}

\* C18: every event is delivered with its own content and room id: the event
\* scanEvents holds while call handles it, and the event each callback is
\* given, is the event as ProcessResponse sent it, the k-th received being the
\* k-th sent, also after the producer has gone on to its next event.
C18_ObservedAsSent ==
  /\ InCall => heap[cur] = sent[ndispatched + 1]
  /\ \A i \in 1..Len(invoked) :
       invoked[i].ev = sent[IF InCall THEN ndispatched + 1 ELSE ndispatched]

\* No reader is counted in listenersRWMut and rw.w is held only by an
\* announced writer: call has released what it took.
ReaderReleased ==
  /\ readerCount = (IF WriterAnnounced THEN 0 - rwmutexMaxReaders ELSE 0)
  /\ wLocked <=> WriterAnnounced

\* C19: dispatch without matching listeners is a no-op: when call has handled
\* an event whose type has no list, no callback was invoked, the error is nil,
\* the lock is released and nothing has ended the process, so that scanEvents
\* goes on with its select.
C19_NoListenerNoOp ==
  ((CallEnded \/ CallAborted) /\ ~callsList.ok) =>
    /\ fatal = NoFatal
    /\ lerr = "nil" /\ invoked = <<>>
    /\ ReaderReleased

\* No callback that faults has been registered.
NoFaultyRegistered ==
  \A t \in DOMAIN listeners : \A i \in 1..Len(listeners[t]) :
    listeners[t][i] \notin FaultyCallbacks

\* C20: closing the events channel ends the dispatch task cleanly: with the
\* channel closed, no stop(), no cancellation and no faulting callback, when
\* scanEvents has ended every event sent has been dispatched and scanEvents
\* has returned nil.
C20_CloseEndsCleanly ==
  (/\ evClosed /\ ~ctxDone /\ stopWaiting + stopReturned = 0
   /\ NoFaultyRegistered
   /\ (spc = "returned" \/ fatal # NoFatal)) =>
    /\ fatal = NoFatal
    /\ sret = "nil"
    /\ ndispatched = Len(sent)

====
